---- MODULE Spec2Model ----
(***************************************************************************)
(* State-machine model of src/renderer.js (FIL Live Desktop renderer).     *)
(*                                                                         *)
(* Units are the source's: milliseconds (Date.now()), US dollars, FIL.     *)
(* A JavaScript number is a record [k, n, d]: k = "num" is the finite      *)
(* rational n/d in lowest terms, k = "NaN", k = "inf" is +Infinity or      *)
(* -Infinity by the sign of n.                                             *)
(*                                                                         *)
(* One action is one callback of the event loop, run to its end or to its  *)
(* next suspension on a network promise (fetch / r.json()).  The hop from  *)
(* a returning async function to its awaiting caller is a microtask of the *)
(* same event-loop task and is part of the same action.                    *)
(***************************************************************************)
EXTENDS Integers, Sequences, FiniteSets, TLC

(* ------------------------------ bounds --------------------------------- *)
\* Capacity N of the sample buffer.  The source sets 600 (src/renderer.js:35);
\* the model runs the same code with a small N so that eviction happens.
BUF_MAX_POINTS == 2
\* Accepted price updates in one run of the price chain specification.
MaxAppends == 3
\* The clock advances in half-hour steps, this many times (price chain).
MaxClockSteps == 1
\* Poll rounds started in one run (the first by startRESTPolling itself).
MaxPolls == 2
\* Accepted price updates and clock steps in one run of the tick specification.
MaxTickAppends == 2
MaxTickClockSteps == 4
\* Quantity refresh rounds and stats requests started in one run.
MaxRefresh == 2
MaxStats == 2
\* Accepted price updates in one run of the failover specification.
MaxLinkAppends == 2
\* Accepted price updates and clock steps in one run of the windowed-query
\* specification.
MaxPctAppends == 3
MaxPctClockSteps == 3
\* Accepted price updates in one run of the stats specification.
MaxStatsAppends == 2

(* --------------------------- user settings ----------------------------- *)
ENABLE_ALERTS == TRUE
SL_PRICE == 2
ALERT_COOLDOWN_MIN == 60
PRICE_SOURCE == "coinbase"

HalfHourMs == 30 * 60000

NULL == 0

(* ----------------------------- JS numbers ------------------------------ *)
Num(i) == [k |-> "num", n |-> i, d |-> 1]
NaN == [k |-> "NaN", n |-> 0, d |-> 1]
Inf(sign) == [k |-> "inf", n |-> sign, d |-> 1]
isFinite(x) == x.k = "num"

(* --------------------------- JS arithmetic ----------------------------- *)
Abs(i) == IF i < 0 THEN 0 - i ELSE i
Sign(i) == IF i < 0 THEN 0 - 1 ELSE IF i > 0 THEN 1 ELSE 0

RECURSIVE Gcd(_, _)
Gcd(a, b) == IF b = 0 THEN a ELSE Gcd(b, a % b)

\* The finite number n/d in lowest terms with a positive denominator (d # 0).
Rat(n, d) ==
  LET g == Gcd(Abs(n), Abs(d)) IN
  [k |-> "num", n |-> (Sign(d) * n) \div g, d |-> Abs(d) \div g]

isNaN(x) == x.k \notin {"num", "inf"}

\* a - b, a * b and a / b of IEEE arithmetic on these values.
Sub(a, b) ==
  CASE isNaN(a) \/ isNaN(b) -> NaN
    [] a.k = "num" /\ b.k = "num" -> Rat(a.n * b.d - b.n * a.d, a.d * b.d)
    [] a.k = "inf" /\ b.k = "num" -> a
    [] a.k = "num" /\ b.k = "inf" -> Inf(0 - b.n)
    [] OTHER -> IF a.n = b.n THEN NaN ELSE a

Add(a, b) ==
  CASE isNaN(a) \/ isNaN(b) -> NaN
    [] a.k = "num" /\ b.k = "num" -> Rat(a.n * b.d + b.n * a.d, a.d * b.d)
    [] a.k = "inf" /\ b.k = "num" -> a
    [] a.k = "num" /\ b.k = "inf" -> b
    [] OTHER -> IF a.n = b.n THEN a ELSE NaN

Mul(a, b) ==
  CASE isNaN(a) \/ isNaN(b) -> NaN
    [] a.k = "num" /\ b.k = "num" -> Rat(a.n * b.n, a.d * b.d)
    [] OTHER -> IF a.n = 0 \/ b.n = 0 THEN NaN ELSE Inf(Sign(a.n) * Sign(b.n))

Div(a, b) ==
  CASE isNaN(a) \/ isNaN(b) -> NaN
    [] a.k = "num" /\ b.k = "num" ->
         IF b.n # 0 THEN Rat(a.n * b.d, a.d * b.n)
         ELSE IF a.n = 0 THEN NaN ELSE Inf(Sign(a.n))
    [] a.k = "inf" /\ b.k = "num" -> Inf(IF b.n < 0 THEN 0 - a.n ELSE a.n)
    [] a.k = "num" /\ b.k = "inf" -> Num(0)
    [] OTHER -> NaN

\* a < b and a <= b; any comparison with NaN or undefined is false.
Lt(a, b) ==
  CASE isNaN(a) \/ isNaN(b) -> FALSE
    [] a.k = "num" /\ b.k = "num" -> a.n * b.d < b.n * a.d
    [] a.k = "inf" /\ b.k = "num" -> a.n < 0
    [] a.k = "num" /\ b.k = "inf" -> b.n > 0
    [] OTHER -> a.n < b.n

Le(a, b) == ~isNaN(a) /\ ~isNaN(b) /\ ~Lt(b, a)

TP_PRICE == Rat(7, 2)

\* JSON values as the handlers see them after JSON.parse.
JUndef == [t |-> "undef", s |-> "", n |-> 0]
JNull == [t |-> "null", s |-> "", n |-> 0]
JStr(s) == [t |-> "str", s |-> s, n |-> 0]
JNum(i) == [t |-> "num", s |-> "", n |-> i]

\* Number(string) for the strings the model feeds in (the empty string is 0;
\* anything unparseable is NaN).
ParseNumber(s) ==
  CASE s = "" -> Num(0)
    [] s = "0" -> Num(0)
    [] s = "0.00" -> Num(0)
    [] s = "1.50" -> Rat(3, 2)
    [] s = "3.00" -> Num(3)
    [] s = "4.00" -> Num(4)
    [] s = "100.00" -> Num(100)
    [] s = "110.00" -> Num(110)
    [] s = "7" -> Num(7)
    [] s = "-5" -> Num(0 - 5)
    [] s = "Infinity" -> Inf(1)
    [] OTHER -> NaN

\* Number(v): undefined -> NaN, null -> 0, a number is itself, a string is parsed.
Number(v) ==
  CASE v.t = "undef" -> NaN
    [] v.t = "null" -> Num(0)
    [] v.t = "num" -> Num(v.n)
    [] OTHER -> ParseNumber(v.s)

\* JavaScript truthiness: undefined, null, 0 and "" are falsy ("0.00" is truthy).
Truthy(v) ==
  CASE v.t = "undef" -> FALSE
    [] v.t = "null" -> FALSE
    [] v.t = "num" -> v.n # 0
    [] OTHER -> v.s # ""

PriceStrings == {"", "0.00", "1.50", "3.00", "abc", "Infinity"}
JsonPrices == {JUndef, JNull, JNum(0), JNum(4)} \cup {JStr(s) : s \in PriceStrings}

(* ------------------------------- state --------------------------------- *)
VARIABLES
  now,          \* Date.now()
  booted,       \* init() has run (DOMContentLoaded)
  lastPrice,    \* line 40
  priceBuffer,  \* line 41: sequence of [t, p]
  lastAlertTs,  \* line 42
  cachedQty,    \* line 43
  stats24,      \* line 44: [high, low]
  wsConn,       \* line 45: index into sockets, or NULL
  wsVendor,     \* line 46: "null" or the vendor string
  restPollTimer,\* line 220: interval handle or NULL
  updated,      \* elUpdated note set by setUpdated
  sockets,      \* every WebSocket object constructed so far: [vendor, state]
  timers,       \* handles of the armed polling interval timers
  polls,        \* poll rounds in flight: [n, at] (start number, provider awaited)
  pollSeq,      \* poll rounds started so far
  qtyRounds,    \* quantity refresh rounds in flight: [n, a, at, total]
  qtySeq,       \* quantity refresh rounds started so far
  statsRounds,  \* 24h stats requests in flight (their start numbers)
  statsSeq,     \* 24h stats requests started so far
  starts,       \* history: calls of startCoinbaseWS, startKrakenWS, startRESTPolling
  appended,     \* history: every sample handed to pushPrice, in order
  alertLog,     \* history: every alert event emitted, [t, text]
  lastPollWrite,\* history: start number of the poll round that stored a price last
  lastRefresh   \* history: the last completed quantity round, [n, total, result]

priceVars == <<lastPrice, priceBuffer, appended>>
linkVars == <<wsConn, wsVendor, sockets, starts>>
pollVars == <<restPollTimer, timers, polls, pollSeq, lastPollWrite>>
alertVars == <<lastAlertTs, alertLog>>
qtyVars == <<cachedQty, qtyRounds, qtySeq, lastRefresh>>
statsVars == <<stats24, statsRounds, statsSeq>>

vars == <<now, booted, updated, priceVars, linkVars, pollVars, alertVars, qtyVars,
          statsVars>>

(* ---------------------------- sample buffer ---------------------------- *)
\* Mutant: trims the newest entries instead of the oldest.
pushPriceTrimTail(buf, t, p) ==
  LET b == Append(buf, [t |-> t, p |-> p]) IN
  IF Len(b) > BUF_MAX_POINTS THEN SubSeq(b, 1, BUF_MAX_POINTS) ELSE b

\* pushPrice: push, then splice(0, length - BUF_MAX_POINTS).
pushPrice(buf, t, p) ==
  LET b == Append(buf, [t |-> t, p |-> p]) IN
  IF Len(b) > BUF_MAX_POINTS
  THEN SubSeq(b, Len(b) - BUF_MAX_POINTS + 1, Len(b))
  ELSE b

\* Mutant: the price is stored and the sample is not appended.
AcceptPriceNoPush(px) ==
  /\ lastPrice' = px
  /\ UNCHANGED <<priceBuffer, appended>>

\* lastPrice = px; pushPrice(Date.now(), px)  (lines 173-174, 203-204, 240-241)
AcceptPrice(px) ==
  /\ lastPrice' = px
  /\ priceBuffer' = pushPrice(priceBuffer, now, px)
  /\ appended' = Append(appended, [t |-> now, p |-> px])

NoPrice == UNCHANGED priceVars

(* ----------------------- price source chain ---------------------------- *)
Max(S) == CHOOSE x \in S : \A y \in S : y <= x

SetState(socks, i, st) == [socks EXCEPT ![i].state = st]

\* The WebSocket objects that are connecting or open.
Live(socks) == {i \in DOMAIN socks : socks[i].state \in {"connecting", "open"}}

\* First provider of a poll round: Coinbase REST when PRICE_SOURCE is
\* 'coinbase' (line 227), else Kraken REST.
FirstProvider == IF PRICE_SOURCE = "coinbase" THEN 1 ELSE 2
LastProvider == 3

\* startRESTPolling, given the sockets as its caller leaves them: drops the
\* connection, names REST the vendor, clears the stored timer handle, arms a
\* new interval and runs poll() up to its first await.
startRESTPolling(socks, st) ==
  LET h == Max(timers \cup {restPollTimer, 0}) + 1 IN
  /\ sockets' = socks
  /\ starts' = [st EXCEPT !.REST = @ + 1]
  /\ wsConn' = NULL
  /\ wsVendor' = "REST"
  /\ timers' = (timers \ {restPollTimer}) \cup {h}
  /\ restPollTimer' = h
  /\ pollSeq' = pollSeq + 1
  /\ polls' = polls \cup {[n |-> pollSeq + 1, at |-> FirstProvider]}
  /\ UNCHANGED lastPollWrite

\* startKrakenWS: ctor is whether new WebSocket(...) returns (else it throws
\* and the catch starts REST polling).
startKrakenWS(socks, st, ctor) ==
  IF ctor
  THEN /\ sockets' = Append(socks, [vendor |-> "Kraken", state |-> "connecting"])
       /\ starts' = [st EXCEPT !.Kraken = @ + 1]
       /\ wsConn' = Len(socks) + 1
       /\ UNCHANGED <<wsVendor, pollVars>>
  ELSE startRESTPolling(socks, [st EXCEPT !.Kraken = @ + 1])

\* startCoinbaseWS: as above, the catch starts the Kraken link.
startCoinbaseWS(socks, st, ctor, ctor2) ==
  IF ctor
  THEN /\ sockets' = Append(socks, [vendor |-> "Coinbase", state |-> "connecting"])
       /\ starts' = [st EXCEPT !.Coinbase = @ + 1]
       /\ wsConn' = Len(socks) + 1
       /\ UNCHANGED <<wsVendor, pollVars>>
  ELSE startKrakenWS(socks, [st EXCEPT !.Coinbase = @ + 1], ctor2)

\* ws.onopen of either link (lines 163-167, 193-197).
OnOpen(i) ==
  /\ sockets[i].state = "connecting"
  /\ sockets' = SetState(sockets, i, "open")
  /\ wsVendor' = IF sockets[i].vendor = "Coinbase" THEN "Coinbase WS" ELSE "Kraken WS"
  /\ updated' = IF sockets[i].vendor = "Coinbase"
                THEN "Connected (Coinbase WS)" ELSE "Connected (Kraken WS)"
  /\ UNCHANGED <<now, booted, wsConn, starts, priceVars, pollVars, alertVars, qtyVars,
                 statsVars>>

\* Coinbase messages: a FIL-USD ticker with any price field, and with a good
\* price a message of another type, one for another product, and data that
\* JSON.parse rejects.
CoinbaseMessages ==
  [parses : {TRUE}, type : {"ticker"}, product_id : {"FIL-USD"}, price : JsonPrices]
    \cup {[parses |-> TRUE, type |-> "subscriptions", product_id |-> "FIL-USD",
            price |-> JStr("1.50")],
           [parses |-> TRUE, type |-> "ticker", product_id |-> "BTC-USD",
            price |-> JStr("1.50")],
           [parses |-> FALSE, type |-> "ticker", product_id |-> "FIL-USD",
            price |-> JStr("1.50")]}

\* Price the Coinbase onmessage handler accepts from m, NaN when it accepts none
\* (lines 169-172; a JSON.parse exception ends the handler).
coinbaseOnMessage(m) ==
  IF m.parses /\ m.type = "ticker" /\ m.product_id = "FIL-USD" /\ Truthy(m.price)
  THEN LET px == Number(m.price) IN IF isFinite(px) THEN px ELSE NaN
  ELSE NaN

\* Kraken messages: an array [channelID, {c: [price, ...]}, "ticker", pair] or
\* an event object; c0 is m[1].c[0] (undefined when m[1] or m[1].c is missing).
KrakenMessages ==
  [parses : {TRUE}, isArray : {TRUE}, pair : {"FIL/USD"}, c0 : JsonPrices]
    \cup {[parses |-> TRUE, isArray |-> FALSE, pair |-> "FIL/USD", c0 |-> JStr("1.50")],
           [parses |-> TRUE, isArray |-> TRUE, pair |-> "XBT/USD", c0 |-> JStr("4.00")],
           [parses |-> FALSE, isArray |-> TRUE, pair |-> "FIL/USD", c0 |-> JStr("1.50")]}

\* Price the Kraken onmessage handler accepts from m (lines 199-202).
krakenOnMessage(m) ==
  IF m.parses /\ m.isArray /\ Truthy(m.c0)
  THEN LET px == Number(m.c0) IN IF isFinite(px) THEN px ELSE NaN
  ELSE NaN

\* ws.onmessage of the Coinbase link run on the message m (lines 168-177).
CoinbaseDeliver(i, m) ==
  /\ sockets[i].vendor = "Coinbase" /\ sockets[i].state = "open"
  /\ LET px == coinbaseOnMessage(m) IN
     IF isFinite(px) THEN AcceptPrice(px) ELSE NoPrice
  /\ UNCHANGED <<now, booted, updated, linkVars, pollVars, alertVars, qtyVars, statsVars>>

\* A message arrives on the Coinbase link; cap bounds the history.
CoinbaseOnMessage(i, cap) ==
  /\ Len(appended) < cap
  /\ \E m \in CoinbaseMessages : CoinbaseDeliver(i, m)

\* ws.onmessage of the Kraken link run on the message m (lines 198-207).
KrakenDeliver(i, m) ==
  /\ sockets[i].vendor = "Kraken" /\ sockets[i].state = "open"
  /\ LET px == krakenOnMessage(m) IN
     IF isFinite(px) THEN AcceptPrice(px) ELSE NoPrice
  /\ UNCHANGED <<now, booted, updated, linkVars, pollVars, alertVars, qtyVars, statsVars>>

\* A message arrives on the Kraken link.
KrakenOnMessage(i, cap) ==
  /\ Len(appended) < cap
  /\ \E m \in KrakenMessages : KrakenDeliver(i, m)

\* Mutant: the error handler also falls back, so the close event that follows
\* the error starts the next link a second time.
OnErrorFallsBack(i, ctor) ==
  /\ sockets[i].state \in {"connecting", "open"}
  /\ IF sockets[i].vendor = "Coinbase"
     THEN startKrakenWS(SetState(sockets, i, "errored"), starts, ctor)
     ELSE startRESTPolling(SetState(sockets, i, "errored"), starts)
  /\ UNCHANGED <<now, booted, updated, priceVars, alertVars, qtyVars, statsVars>>

\* ws.onerror = () => {} (lines 178, 208): the transport has failed, the
\* close event is still to come.
OnError(i, ctor) ==
  /\ sockets[i].state \in {"connecting", "open"}
  /\ sockets' = SetState(sockets, i, "errored")
  /\ UNCHANGED <<now, booted, updated, wsConn, wsVendor, starts, priceVars, pollVars,
                 alertVars, qtyVars, statsVars>>

\* Mutant: the close handler only reports the disconnection.
OnCloseNoFallback(i, ctor) ==
  /\ sockets[i].state \in {"open", "errored"}
  /\ sockets' = SetState(sockets, i, "closed")
  /\ updated' = IF sockets[i].vendor = "Coinbase"
                THEN "Disconnected (Coinbase WS). Falling back"
                ELSE "Disconnected (Kraken WS). Falling back to REST"
  /\ UNCHANGED <<now, booted, wsConn, wsVendor, starts, priceVars, pollVars, alertVars,
                 qtyVars, statsVars>>

\* ws.onclose (lines 179-182, 209-212): fires once per socket, after an error
\* or on the closure of an open connection.
OnClose(i, ctor) ==
  /\ sockets[i].state \in {"open", "errored"}
  /\ IF sockets[i].vendor = "Coinbase"
     THEN /\ updated' = "Disconnected (Coinbase WS). Falling back"
          /\ startKrakenWS(SetState(sockets, i, "closed"), starts, ctor)
     ELSE /\ updated' = "Disconnected (Kraken WS). Falling back to REST"
          /\ startRESTPolling(SetState(sockets, i, "closed"), starts)
  /\ UNCHANGED <<now, booted, priceVars, alertVars, qtyVars, statsVars>>

(* ------------------------- polling aggregator -------------------------- *)
\* A REST response: fetch rejects, or the status is not ok, or the body is not
\* JSON (r.json() or pick throws), or pick(j) yields the JSON value v.
Responses ==
  [kind : {"reject", "notok", "badjson"}, v : {JUndef}]
    \cup [kind : {"ok"}, v : JsonPrices]

\* getJsonNum: [thrown, v].  A rejected fetch and a body that does not parse
\* throw; a non-ok status gives NaN; else Number(pick(j)) when finite, else NaN.
getJsonNum(r) ==
  CASE r.kind \in {"reject", "badjson"} -> [thrown |-> TRUE, v |-> NaN]
    [] r.kind = "notok" -> [thrown |-> FALSE, v |-> NaN]
    [] OTHER -> [thrown |-> FALSE,
                 v |-> IF isFinite(Number(r.v)) THEN Number(r.v) ELSE NaN]

\* Mutant: poll arms a further interval each time it is fired.
PollFireRearms ==
  /\ timers # {}
  /\ pollSeq < MaxPolls
  /\ pollSeq' = pollSeq + 1
  /\ polls' = polls \cup {[n |-> pollSeq + 1, at |-> FirstProvider]}
  /\ timers' = timers \cup {Max(timers) + 1}
  /\ UNCHANGED <<now, booted, updated, restPollTimer, lastPollWrite, priceVars, linkVars,
                 alertVars, qtyVars, statsVars>>

\* setInterval(poll, 5000) fires: poll runs up to its first await.
PollFire ==
  /\ timers # {}
  /\ pollSeq < MaxPolls
  /\ pollSeq' = pollSeq + 1
  /\ polls' = polls \cup {[n |-> pollSeq + 1, at |-> FirstProvider]}
  /\ UNCHANGED <<now, booted, updated, restPollTimer, timers, lastPollWrite, priceVars,
                 linkVars, alertVars, qtyVars, statsVars>>

\* Mutant: a round that ends in the catch stops the polling interval.
PollResumeStopsOnError(q, r, cap) ==
  /\ q \in polls
  /\ Len(appended) < cap
  /\ getJsonNum(r).thrown
  /\ polls' = polls \ {q}
  /\ timers' = timers \ {restPollTimer}
  /\ NoPrice
  /\ UNCHANGED <<now, booted, updated, restPollTimer, pollSeq, lastPollWrite, linkVars,
                 alertVars, qtyVars, statsVars>>

\* poll resumed with the response r of the provider the round q awaits
\* (lines 225-244): an exception ends the round in the catch; a finite px
\* skips the remaining providers and is stored; NaN goes on to the next.
PollResume(q, r, cap) ==
  LET g == getJsonNum(r) IN
  /\ q \in polls
  /\ Len(appended) < cap
  /\ IF g.thrown
     THEN /\ polls' = polls \ {q}
          /\ NoPrice
          /\ UNCHANGED <<updated, lastPollWrite>>
     ELSE IF isFinite(g.v)
     THEN /\ polls' = polls \ {q}
          /\ AcceptPrice(g.v)
          /\ updated' = "REST polling"
          /\ lastPollWrite' = q.n
     ELSE IF q.at < LastProvider
     THEN /\ polls' = (polls \ {q}) \cup {[q EXCEPT !.at = q.at + 1]}
          /\ NoPrice
          /\ UNCHANGED <<updated, lastPollWrite>>
     ELSE /\ polls' = polls \ {q}
          /\ NoPrice
          /\ UNCHANGED <<updated, lastPollWrite>>
  /\ UNCHANGED <<now, booted, restPollTimer, timers, pollSeq, linkVars, alertVars,
                 qtyVars, statsVars>>

(* ------------------------------- clock --------------------------------- *)
\* Date.now() moves on by half an hour, at most steps times in a run.
AdvanceClock(steps) ==
  /\ now < steps * HalfHourMs
  /\ now' = now + HalfHourMs
  /\ UNCHANGED <<booted, updated, priceVars, linkVars, pollVars, alertVars, qtyVars,
                 statsVars>>

(* ------------------------- windowed queries ---------------------------- *)
HourMs == 1 * 3600 * 1000
DayMs == 24 * 3600 * 1000

\* Index of the reference sample of pctChangeSinceMs: the first sample in
\* buffer order with t >= cutoff, else the first of the buffer (lines 76-79).
RefIndex(buf, cutoff) ==
  LET hits == {i \in DOMAIN buf : buf[i].t >= cutoff} IN
  IF hits = {} THEN 1 ELSE CHOOSE i \in hits : \A j \in hits : i <= j

\* Mutant: the reference is always the oldest retained sample.
pctChangeSinceOldest(buf, t, ms) ==
  IF Len(buf) = 0 THEN NaN
  ELSE LET ref == buf[1]
           last == buf[Len(buf)]
       IN IF ~isFinite(ref.p) \/ ~isFinite(last.p) \/ ref.p = Num(0) THEN NaN
          ELSE Mul(Div(Sub(last.p, ref.p), ref.p), Num(100))

\* pctChangeSinceMs(ms) at clock t.
pctChangeSinceMs(buf, t, ms) ==
  IF Len(buf) = 0 THEN NaN
  ELSE LET ref == buf[RefIndex(buf, t - ms)]
           last == buf[Len(buf)]
       IN IF ~isFinite(ref.p) \/ ~isFinite(last.p) \/ ref.p = Num(0) THEN NaN
          ELSE Mul(Div(Sub(last.p, ref.p), ref.p), Num(100))

\* minMaxSinceMs(ms) at clock t.
minMaxSinceMs(buf, t, ms) ==
  IF Len(buf) = 0 THEN [hi |-> NaN, lo |-> NaN]
  ELSE LET window == {i \in DOMAIN buf : buf[i].t >= t - ms}
           arr == IF window # {} THEN window ELSE DOMAIN buf
           fin == {i \in arr : isFinite(buf[i].p)}
       IN IF fin = {} THEN [hi |-> Inf(0 - 1), lo |-> Inf(1)]
          ELSE [hi |-> buf[CHOOSE i \in fin : \A j \in fin : Le(buf[j].p, buf[i].p)].p,
                lo |-> buf[CHOOSE i \in fin : \A j \in fin : Le(buf[i].p, buf[j].p)].p]

(* --------------------------- position / lots --------------------------- *)
\* A lot field that is absent (undefined).
Undef == [k |-> "undef", n |-> 0, d |-> 1]

\* FIL_LOTS (lines 22-25): one lot of 100.00 USD, qty omitted.  Its price
\* 2.481420365016936 is rounded to 2.48 so that the arithmetic stays in range.
FIL_LOTS == <<[usd |-> Num(100), price |-> Rat(62, 25), qty |-> Undef]>>

\* One lot normalized: <<>> when it is dropped, else <<[qty, usd, price]>>.
normalizeLot(l) ==
  LET price == IF l.price = Undef THEN NaN ELSE l.price IN
  IF ~isFinite(price) \/ Le(price, Num(0)) THEN <<>>
  ELSE IF l.qty # Undef
  THEN IF ~isFinite(l.qty) \/ Le(l.qty, Num(0)) THEN <<>>
       ELSE <<[qty |-> l.qty, usd |-> Mul(l.qty, price), price |-> price]>>
  ELSE IF l.usd # Undef
  THEN IF ~isFinite(l.usd) \/ Le(l.usd, Num(0)) THEN <<>>
       ELSE <<[qty |-> Div(l.usd, price), usd |-> l.usd, price |-> price]>>
  ELSE <<>>

RECURSIVE normalizeLots(_)
normalizeLots(lots) ==
  IF lots = <<>> THEN <<>>
  ELSE normalizeLot(Head(lots)) \o normalizeLots(Tail(lots))

RECURSIVE SumField(_, _)
SumField(lots, f) ==
  IF lots = <<>> THEN Num(0) ELSE Add(Head(lots)[f], SumField(Tail(lots), f))

\* The lots of the static configuration, normalized, and their sums (lines
\* 124-126; the same on every call).
Lots == normalizeLots(FIL_LOTS)
LotsInvested == SumField(Lots, "usd")
LotsQty == SumField(Lots, "qty")

\* computePosition(overrideQtyMaybe).
computePosition(overrideQtyMaybe) ==
  LET lots == Lots
      invested == LotsInvested
      qtyLots == LotsQty
      qty == IF isFinite(overrideQtyMaybe) /\ Lt(Num(0), overrideQtyMaybe)
             THEN overrideQtyMaybe ELSE qtyLots
      avg == IF Lt(Num(0), qty) THEN Div(invested, qty) ELSE NaN
  IN [lotsCount |-> Len(lots), qty |-> qty, invested |-> invested, avgCost |-> avg]

(* ------------------------------ metrics -------------------------------- *)
\* What render() computes and writes to the page (lines 334-366) from the
\* current price, the buffer, the cached quantity and the stats cache at
\* clock t.  tp and sl are the target distances, "omitted" when the line is
\* not shown.
renderMetrics(price, buf, qty, st, t) ==
  LET prev == IF Len(buf) > 1 THEN buf[Len(buf) - 1].p ELSE price
      mm == minMaxSinceMs(buf, t, DayMs)
      pos == computePosition(qty)
      value == IF isFinite(price) THEN Mul(pos.qty, price) ELSE NaN
      pnlUSD == IF isFinite(value) THEN Sub(value, pos.invested) ELSE NaN
  IN [priceClass |-> IF isFinite(price)
                     THEN (IF Le(prev, price) THEN "pos" ELSE "neg") ELSE "neu",
      ch1h |-> pctChangeSinceMs(buf, t, HourMs),
      ch24h |-> pctChangeSinceMs(buf, t, DayMs),
      hi |-> IF isFinite(st.high) THEN st.high ELSE mm.hi,
      lo |-> IF isFinite(st.low) THEN st.low ELSE mm.lo,
      qty |-> pos.qty,
      invested |-> pos.invested,
      avgCost |-> pos.avgCost,
      value |-> value,
      pnlUSD |-> pnlUSD,
      pnlPct |-> IF Lt(Num(0), pos.invested) /\ isFinite(value)
                 THEN Mul(Div(pnlUSD, pos.invested), Num(100)) ELSE NaN,
      fromAvgPct |-> IF isFinite(pos.avgCost) /\ Lt(Num(0), pos.avgCost) /\ isFinite(price)
                     THEN Mul(Div(Sub(price, pos.avgCost), pos.avgCost), Num(100))
                     ELSE NaN,
      tp |-> IF isFinite(TP_PRICE) /\ isFinite(price)
             THEN Mul(Sub(Div(TP_PRICE, price), Num(1)), Num(100)) ELSE Undef,
      sl |-> IF isFinite(Num(SL_PRICE)) /\ isFinite(price)
             THEN Mul(Sub(Div(Num(SL_PRICE), price), Num(1)), Num(100)) ELSE Undef]

\* The snapshot a render tick would show in the current state.
Metrics == renderMetrics(lastPrice, priceBuffer, cachedQty, stats24, now)

(* ------------------------------- alerts -------------------------------- *)
cooldownMs == ALERT_COOLDOWN_MIN * 60000

needsSL(price) == isFinite(Num(SL_PRICE)) /\ Le(price, Num(SL_PRICE))
needsTP(price) == isFinite(TP_PRICE) /\ Le(TP_PRICE, price)

\* Mutant: the cooldown test is dropped.
canAlertAlways(t, last) == TRUE

\* canAlert at clock t with lastAlertTs = last (line 137).
canAlert(t, last) == (t - last) >= cooldownMs

\* maybeAlert(price): one Notification and lastAlertTs = now, or nothing.
maybeAlert(price) ==
  IF ENABLE_ALERTS /\ (needsSL(price) \/ needsTP(price)) /\ canAlert(now, lastAlertTs)
  THEN /\ alertLog' = Append(alertLog,
                        [t |-> now,
                         text |-> IF needsSL(price) THEN "stop-loss" ELSE "take-profit"])
       /\ lastAlertTs' = now
  ELSE UNCHANGED alertVars

\* Mutant: render drops the oldest sample as it reads the buffer.
renderShifts ==
  /\ IF isFinite(lastPrice) THEN maybeAlert(lastPrice) ELSE UNCHANGED alertVars
  /\ priceBuffer' = IF priceBuffer = <<>> THEN <<>> ELSE Tail(priceBuffer)
  /\ UNCHANGED <<lastPrice, appended>>

\* render(): the page is a function of the state (Metrics); the only state
\* it writes is the alert state (line 368).
render ==
  /\ IF isFinite(lastPrice) THEN maybeAlert(lastPrice) ELSE UNCHANGED alertVars
  /\ UNCHANGED priceVars

LiveNote(v) ==
  CASE v = "Coinbase WS" -> "Live (Coinbase WS)"
    [] v = "Kraken WS" -> "Live (Kraken WS)"
    [] v = "REST" -> "Live (REST)"
    [] OTHER -> "Live"

\* The 1 Hz interval callback (lines 383-386): render, then the status note.
Tick ==
  /\ booted
  /\ render
  /\ updated' = LiveNote(wsVendor)
  /\ UNCHANGED <<now, booted, linkVars, pollVars, qtyVars, statsVars>>

(* ------------------------------ 24h stats ------------------------------ *)
\* A stats response: the request fails, or the body carries j.high and j.low.
StatsResponses ==
  [kind : {"reject", "notok", "badjson"}, high : {JUndef}, low : {JUndef}]
    \cup [kind : {"ok"}, high : {JUndef, JStr("4.00")}, low : {JUndef, JStr("1.50")}]

\* refresh24hStats() is called (by init or by its interval): the request is sent.
StatsFire ==
  /\ booted
  /\ statsSeq < MaxStats
  /\ statsSeq' = statsSeq + 1
  /\ statsRounds' = statsRounds \cup {statsSeq + 1}
  /\ UNCHANGED <<now, booted, updated, stats24, priceVars, linkVars, pollVars,
                 alertVars, qtyVars>>

\* Mutant: each field of the response is stored when it is finite by itself.
StatsResumePartial(n, r) ==
  /\ n \in statsRounds
  /\ statsRounds' = statsRounds \ {n}
  /\ stats24' = IF r.kind = "ok"
                THEN [high |-> IF isFinite(Number(r.high)) THEN Number(r.high)
                               ELSE stats24.high,
                      low |-> IF isFinite(Number(r.low)) THEN Number(r.low)
                              ELSE stats24.low]
                ELSE stats24
  /\ UNCHANGED <<now, booted, updated, statsSeq, priceVars, linkVars, pollVars,
                 alertVars, qtyVars>>

\* refresh24hStats resumed with the response r (lines 263-268).
StatsResume(n, r) ==
  /\ n \in statsRounds
  /\ statsRounds' = statsRounds \ {n}
  /\ stats24' = IF r.kind = "ok" /\ isFinite(Number(r.high)) /\ isFinite(Number(r.low))
                THEN [high |-> Number(r.high), low |-> Number(r.low)]
                ELSE stats24
  /\ UNCHANGED <<now, booted, updated, statsSeq, priceVars, linkVars, pollVars,
                 alertVars, qtyVars>>

(* --------------------------- on-chain balance -------------------------- *)
USE_EXODUS_BALANCE == TRUE

\* FIL_ADDRESSES (lines 16-19).  The source lists one address; the model
\* configures two so that the sum over addresses is exercised.
FIL_ADDRESSES == <<"f1aaa", "f1bbb">>

\* attoToFIL, for the attoFIL strings the model feeds in: 18 decimals are
\* split off; all zeros is 0; a string that is no digit string ends in NaN.
attoToFIL(s) ==
  CASE s = "0" -> Num(0)
    [] s = "1500000000000000000" -> Rat(3, 2)
    [] s = "42000000000000000000" -> Num(42)
    [] OTHER -> NaN

IsDigits(s) == s \in {"0", "1500000000000000000", "42000000000000000000"}
EndsWithFIL(s) == s \in {"7 FIL"}
StripFIL(s) == IF s = "7 FIL" THEN "7" ELSE s

\* A balance response: the request fails (every failure is caught at the
\* provider), or the body carries v: j.result for the RPC, and
\* j.balance || j.available || j.balanceString for the explorer.
BalanceValues ==
  {JUndef, JStr("0"), JStr("42000000000000000000"), JStr("7 FIL"), JStr("-5")}
BalanceResponses ==
  [kind : {"reject", "notok", "badjson"}, v : {JUndef}]
    \cup [kind : {"ok"}, v : BalanceValues]

GlifUrls == 2
Filfox == GlifUrls + 1

\* One provider of fetchFILAddressBalance answered r: [done, q].  An RPC url
\* (lines 288-296) returns attoToFIL(j.result) when j.result is truthy, else
\* the next provider is tried; the explorer (lines 298-312) returns a number
\* or falls through to NaN.
balanceStep(at, r) ==
  IF at <= GlifUrls
  THEN IF r.kind = "ok" /\ Truthy(r.v)
       THEN [done |-> TRUE, q |-> attoToFIL(r.v.s)]
       ELSE [done |-> FALSE, q |-> NaN]
  ELSE IF r.kind = "ok" /\ r.v.t \notin {"undef", "null"}
       THEN [done |-> TRUE,
             q |-> IF IsDigits(r.v.s) THEN attoToFIL(r.v.s)
                   ELSE IF EndsWithFIL(r.v.s) THEN ParseNumber(StripFIL(r.v.s))
                   ELSE IF isFinite(ParseNumber(r.v.s)) THEN ParseNumber(r.v.s)
                   ELSE NaN]
       ELSE [done |-> TRUE, q |-> NaN]

\* refreshQty() is called (by init or by its interval): fetchExodusQtyFIL runs
\* up to the first request for the first address.
QtyFire ==
  /\ booted
  /\ qtySeq < MaxRefresh
  /\ qtySeq' = qtySeq + 1
  /\ qtyRounds' = qtyRounds \cup
        {[n |-> qtySeq + 1, a |-> 1, at |-> 1, total |-> Num(0)]}
  /\ UNCHANGED <<now, booted, updated, cachedQty, lastRefresh, priceVars, linkVars,
                 pollVars, alertVars, statsVars>>

\* Mutant: only a negative sum counts as a failed round.
fetchExodusQtyFILAcceptsZero(total, cached) ==
  IF ~isFinite(total) \/ Lt(total, Num(0))
  THEN (IF isFinite(cached) THEN cached ELSE NaN)
  ELSE total

\* Mutant: a round without a positive sum stores what it computed.
fetchExodusQtyFILNoFallback(total, cached) == total

\* Return value of fetchExodusQtyFIL for the sum total with cachedQty = cached
\* (lines 324-328); a positive total is also stored by line 327.
fetchExodusQtyFIL(total, cached) ==
  IF ~isFinite(total) \/ Le(total, Num(0))
  THEN (IF isFinite(cached) THEN cached ELSE NaN)
  ELSE total

\* The round q resumed with the response r of the provider it awaits.  When
\* the last address is done, fetchExodusQtyFIL returns and refreshQty stores
\* the result (line 379) in the same event-loop task.
QtyResume(q, r) ==
  LET b == balanceStep(q.at, r)
      total == IF b.done /\ isFinite(b.q) THEN Add(q.total, b.q) ELSE q.total
  IN
  /\ q \in qtyRounds
  /\ IF ~b.done
     THEN /\ qtyRounds' = (qtyRounds \ {q}) \cup {[q EXCEPT !.at = q.at + 1]}
          /\ UNCHANGED <<cachedQty, lastRefresh>>
     ELSE IF q.a < Len(FIL_ADDRESSES)
     THEN /\ qtyRounds' = (qtyRounds \ {q}) \cup
                            {[q EXCEPT !.a = q.a + 1, !.at = 1, !.total = total]}
          /\ UNCHANGED <<cachedQty, lastRefresh>>
     ELSE /\ qtyRounds' = qtyRounds \ {q}
          /\ cachedQty' = fetchExodusQtyFIL(total, cachedQty)
          /\ lastRefresh' = [n |-> q.n, total |-> total,
                             result |-> fetchExodusQtyFIL(total, cachedQty)]
  /\ UNCHANGED <<now, booted, updated, qtySeq, priceVars, linkVars, pollVars,
                 alertVars, statsVars>>

(* -------------------------------- init --------------------------------- *)
\* init() (lines 372-387): starts the price stream, sends the first stats
\* request and the first quantity round, and arms the three intervals (which
\* StatsFire, QtyFire and Tick then fire).
init ==
  /\ ~booted
  /\ booted' = TRUE
  /\ \E ctor \in BOOLEAN, ctor2 \in BOOLEAN : startCoinbaseWS(sockets, starts, ctor, ctor2)
  /\ statsSeq' = statsSeq + 1
  /\ statsRounds' = statsRounds \cup {statsSeq + 1}
  /\ qtySeq' = qtySeq + 1
  /\ qtyRounds' = qtyRounds \cup
        {[n |-> qtySeq + 1, a |-> 1, at |-> 1, total |-> Num(0)]}
  /\ UNCHANGED <<now, updated, stats24, cachedQty, lastRefresh, priceVars, alertVars>>

(* --------------------------- specifications ---------------------------- *)
\* The state when the script has loaded (lines 40-46, 220).
Init ==
  /\ now = 0
  /\ booted = FALSE
  /\ lastPrice = NaN
  /\ priceBuffer = <<>>
  /\ lastAlertTs = 0
  /\ cachedQty = NaN
  /\ stats24 = [high |-> NaN, low |-> NaN]
  /\ wsConn = NULL
  /\ wsVendor = "null"
  /\ restPollTimer = NULL
  /\ updated = ""
  /\ sockets = <<>>
  /\ starts = [Coinbase |-> 0, Kraken |-> 0, REST |-> 0]
  /\ timers = {}
  /\ polls = {}
  /\ pollSeq = 0
  /\ qtyRounds = {}
  /\ qtySeq = 0
  /\ statsRounds = {}
  /\ statsSeq = 0
  /\ appended = <<>>
  /\ alertLog = <<>>
  /\ lastPollWrite = 0
  /\ lastRefresh = [n |-> 0, total |-> NaN, result |-> NaN]

\* The price source chain and the sample buffer.
Next ==
  \/ init
  \/ \E i \in DOMAIN sockets : OnOpen(i)
  \/ \E i \in DOMAIN sockets : CoinbaseOnMessage(i, MaxAppends)
  \/ \E i \in DOMAIN sockets : KrakenOnMessage(i, MaxAppends)
  \/ \E i \in DOMAIN sockets, ctor \in BOOLEAN : OnError(i, ctor)
  \/ \E i \in DOMAIN sockets, ctor \in BOOLEAN : OnClose(i, ctor)
  \/ PollFire
  \/ \E q \in polls, r \in Responses : PollResume(q, r, MaxAppends)
  \/ AdvanceClock(MaxClockSteps)

Spec == Init /\ [][Next]_vars

\* The render tick against price updates from every link, the stats cache and
\* the clock (the quantity round that init starts stays unanswered here; the
\* quantity refresher runs against the tick in SpecQty).
NextTick ==
  \/ init
  \/ \E i \in DOMAIN sockets : OnOpen(i)
  \/ \E i \in DOMAIN sockets : CoinbaseOnMessage(i, MaxTickAppends)
  \/ \E i \in DOMAIN sockets : KrakenOnMessage(i, MaxTickAppends)
  \/ \E i \in DOMAIN sockets, ctor \in BOOLEAN : OnError(i, ctor)
  \/ \E i \in DOMAIN sockets, ctor \in BOOLEAN : OnClose(i, ctor)
  \/ \E q \in polls, r \in Responses : PollResume(q, r, MaxTickAppends)
  \/ \E n \in statsRounds, r \in StatsResponses : StatsResume(n, r)
  \/ AdvanceClock(MaxTickClockSteps)
  \/ Tick

SpecTick == Init /\ [][NextTick]_vars

\* The quantity refresher: overlapping rounds against render ticks.
NextQty ==
  \/ init
  \/ QtyFire
  \/ \E q \in qtyRounds, r \in BalanceResponses : QtyResume(q, r)
  \/ Tick

SpecQty == Init /\ [][NextQty]_vars

\* The price source chain under the delivery guarantee of the WebSocket API:
\* a connection that has signalled an error is closed, and its close event is
\* delivered.  (An open connection may stay open for ever.)
NextLink ==
  \/ init
  \/ \E i \in DOMAIN sockets : OnOpen(i)
  \/ \E i \in DOMAIN sockets : CoinbaseOnMessage(i, MaxLinkAppends)
  \/ \E i \in DOMAIN sockets : KrakenOnMessage(i, MaxLinkAppends)
  \/ \E i \in DOMAIN sockets, ctor \in BOOLEAN : OnError(i, ctor)
  \/ \E i \in DOMAIN sockets, ctor \in BOOLEAN : OnClose(i, ctor)
  \/ \E q \in polls, r \in Responses : PollResume(q, r, MaxLinkAppends)

CloseAfterError ==
  \E i \in DOMAIN sockets, ctor \in BOOLEAN : sockets[i].state = "errored" /\ OnClose(i, ctor)

SpecLink == Init /\ [][NextLink]_vars /\ WF_vars(CloseAfterError)

\* The windowed queries: tickers at 100.00, 110.00 and 0.00 arrive on the
\* primary link while the clock moves, and the tick evaluates the queries.
PctMessages ==
  [parses : {TRUE}, type : {"ticker"}, product_id : {"FIL-USD"},
   price : {JStr("100.00"), JStr("110.00"), JStr("0.00")}]

PctSample(i) ==
  /\ Len(appended) < MaxPctAppends
  /\ \E m \in PctMessages : CoinbaseDeliver(i, m)

NextPct ==
  \/ init
  \/ \E i \in DOMAIN sockets : OnOpen(i)
  \/ \E i \in DOMAIN sockets : PctSample(i)
  \/ AdvanceClock(MaxPctClockSteps)
  \/ Tick

SpecPct == Init /\ [][NextPct]_vars

\* The stats cache: repeated stats requests against price updates and ticks.
NextStats ==
  \/ init
  \/ \E i \in DOMAIN sockets : OnOpen(i)
  \/ \E i \in DOMAIN sockets : CoinbaseOnMessage(i, MaxStatsAppends)
  \/ StatsFire
  \/ \E n \in statsRounds, r \in StatsResponses : StatsResume(n, r)
  \/ Tick

SpecStats == Init /\ [][NextStats]_vars

(* ------------------------------- claims -------------------------------- *)
Min(a, b) == IF a < b THEN a ELSE b
LastN(seq, k) == SubSeq(seq, Len(seq) - k + 1, Len(seq))
SocketsOf(v) == {i \in DOMAIN sockets : sockets[i].vendor = v}
Positive(x) == isFinite(x) /\ Lt(Num(0), x)

\* C1: after any sequence of accepted price updates the buffer holds at most
\* BUF_MAX_POINTS samples, and they are exactly the most recent
\* min(BUF_MAX_POINTS, k) of the k samples appended so far, in append order.
C1_BufferKeepsMostRecent ==
  /\ Len(priceBuffer) <= BUF_MAX_POINTS
  /\ priceBuffer = LastN(appended, Min(BUF_MAX_POINTS, Len(appended)))

\* C1 witness: more samples were appended than fit, the oldest was evicted and
\* the retained ones differ from the evicted one.
C1_Witness ==
  /\ Len(appended) > BUF_MAX_POINTS
  /\ Len(priceBuffer) = BUF_MAX_POINTS
  /\ appended[1] # priceBuffer[1]

\* C2: the secondary link is started exactly once when the primary closes or
\* cannot be constructed (and not before), no link is started or constructed
\* twice, and at most one real-time link is connecting or open at any time.
C2_SingleRealTimeLink ==
  /\ Cardinality(Live(sockets)) <= 1
  /\ \A v \in {"Coinbase", "Kraken"} : starts[v] <= 1 /\ Cardinality(SocketsOf(v)) <= starts[v]
  /\ starts.Kraken = 1 <=>
       /\ booted
       /\ \A i \in SocketsOf("Coinbase") : sockets[i].state = "closed"

\* C2 witness: the primary has closed and the secondary is open.
C2_Witness ==
  /\ \E i \in SocketsOf("Coinbase") : sockets[i].state = "closed"
  /\ \E i \in SocketsOf("Kraken") : sockets[i].state = "open"
  /\ starts.Kraken = 1

\* Polling is the active link: REST is the vendor, the stored interval handle
\* is armed and no real-time link is connecting or open.
Polling ==
  /\ wsVendor = "REST"
  /\ wsConn = NULL
  /\ restPollTimer \in timers
  /\ Live(sockets) = {}

\* The secondary link has closed, or its constructor threw.
SecondaryGone ==
  /\ starts.Kraken = 1
  /\ \A i \in SocketsOf("Kraken") : sockets[i].state = "closed"

C7_PricesPositive ==
  /\ lastPrice = NaN \/ Positive(lastPrice)
  /\ \A i \in DOMAIN priceBuffer : Positive(priceBuffer[i].p)

\* C8: once the secondary link has closed or could not be constructed, polling
\* is the active link, and from then on it stays the active link with its
\* interval timer armed and no WebSocket is constructed or started again,
\* whatever the poll rounds return.
C8_PollingIsTerminal ==
  /\ [](SecondaryGone => Polling)
  /\ [][Polling => (Polling' /\ sockets' = sockets /\ starts' = starts)]_vars

\* C8 witness: polling is active after the secondary link closed, and both
\* poll rounds of the run have ended without a price.
C8_Witness ==
  /\ Polling
  /\ \E i \in SocketsOf("Kraken") : sockets[i].state = "closed"
  /\ pollSeq >= 2 /\ polls = {} /\ appended = <<>>

\* C3: a tick emits at most one alert event, it emits none while
\* now - lastAlertTs < cooldown, and any two consecutive emissions are at
\* least the cooldown apart, however the price moves in between.
C3_AlertsRespectCooldown ==
  /\ [](\A i \in 1..(Len(alertLog) - 1) : alertLog[i + 1].t - alertLog[i].t >= cooldownMs)
  /\ [][alertLog' # alertLog =>
          /\ Len(alertLog') = Len(alertLog) + 1
          /\ now - lastAlertTs >= cooldownMs]_vars

\* C3 witness: two alerts were emitted, of different kinds (the price moved
\* from one threshold to the other in between).
C3_Witness ==
  /\ Len(alertLog) = 2
  /\ alertLog[1].text # alertLog[2].text

\* C4 (as claimed): with no alert emitted yet, a tick on which the price is
\* finite (here: positive) and at or beyond a threshold emits one alert and
\* sets lastAlertTs to the time of the tick, whatever the clock shows.
C4_FirstTriggerFires ==
  [][(/\ Tick
      /\ ENABLE_ALERTS /\ alertLog = <<>> /\ lastAlertTs = 0
      /\ Positive(lastPrice)
      /\ (needsSL(lastPrice) \/ needsTP(lastPrice)))
     => (Len(alertLog') = 1 /\ alertLog'[1].t = now /\ lastAlertTs' = now)]_vars

\* C5: a quantity round that ends with a sum that is not positive (all
\* providers failed, or the successes add up to zero or less) returns the
\* cached quantity as it was and leaves the cache unchanged, whatever other
\* rounds and ticks ran since it started.
C5_FailedRoundKeepsCache ==
  [][(lastRefresh' # lastRefresh /\ ~Positive(lastRefresh'.total))
     => (cachedQty' = cachedQty /\ lastRefresh'.result = cachedQty)]_vars

\* C5 witness: a later round ended without a positive sum while the cache
\* held a quantity from an earlier success, and returned that quantity.
C5_Witness ==
  /\ lastRefresh.n >= 2
  /\ ~Positive(lastRefresh.total)
  /\ Positive(cachedQty)
  /\ lastRefresh.result = cachedQty

ZeroOrUndefined(x) == ~isFinite(x) \/ x = Num(0)

\* C9 (as claimed): each metric that is a quotient is undefined when its
\* denominator is zero or undefined: the target distances (denominator the
\* current price), pnlPct (invested), deltaFromAverageCost (average cost) and
\* the 1h/24h changes (reference sample price); and the position value and
\* P&L are undefined when the current price is.
C9_NoZeroDenominator ==
  /\ ZeroOrUndefined(lastPrice) => (isNaN(Metrics.tp) /\ isNaN(Metrics.sl))
  /\ ZeroOrUndefined(Metrics.invested) => isNaN(Metrics.pnlPct)
  /\ ZeroOrUndefined(Metrics.avgCost) => isNaN(Metrics.fromAvgPct)
  /\ \A ms \in {HourMs, DayMs} :
       (priceBuffer = <<>>
          \/ ZeroOrUndefined(priceBuffer[RefIndex(priceBuffer, now - ms)].p))
       => isNaN(pctChangeSinceMs(priceBuffer, now, ms))
  /\ ~isFinite(lastPrice) => (isNaN(Metrics.value) /\ isNaN(Metrics.pnlUSD))

\* C10: a render tick leaves the current price, the sample buffer, the
\* quantity cache, the stats cache and the active link unchanged and starts no
\* request (no poll, quantity or stats round), so the metrics computed right
\* after it equal those computed by it; only the alert state may change.  (The
\* status note is rewritten by the interval callback after render() returns.)
C10_TickOnlyReads ==
  [][Tick =>
       /\ UNCHANGED <<lastPrice, priceBuffer, cachedQty, stats24>>
       /\ UNCHANGED <<wsVendor, wsConn, sockets, restPollTimer, timers>>
       /\ UNCHANGED <<polls, qtyRounds, statsRounds>>
       /\ renderMetrics(lastPrice', priceBuffer', cachedQty', stats24', now') = Metrics]_vars

\* C10 witness: a tick has run on a finite price and emitted an alert, with
\* the stats cache filled.
C10_Witness ==
  /\ updated = LiveNote(wsVendor)
  /\ isFinite(lastPrice)
  /\ isFinite(stats24.high)
  /\ Len(alertLog) >= 1 /\ lastAlertTs = now

Errored(i) == i \in DOMAIN sockets /\ sockets[i].state = "errored"
Closed(i) == i \in DOMAIN sockets /\ sockets[i].state = "closed"
NextLinkOf(v) == IF v = "Coinbase" THEN "Kraken" ELSE "REST"

\* C11: a real-time link that signals a transport error is closed and the
\* chain has then advanced past it; the step on which a link closes starts the
\* next link (the secondary after the primary, polling after the secondary)
\* and writes the "disconnected, falling back" notice; and while a link stays
\* connecting or open no link is started and the connection in use is kept.
C11_FailoverOnSignalOnly ==
  /\ \A i \in 1..2 :
       Errored(i) ~> (Closed(i) /\ starts[NextLinkOf(sockets[i].vendor)] = 1)
  /\ [][\A i \in DOMAIN sockets :
          (sockets[i].state # "closed" /\ sockets'[i].state = "closed") =>
            /\ starts'[NextLinkOf(sockets[i].vendor)] =
                 starts[NextLinkOf(sockets[i].vendor)] + 1
            /\ updated' = IF sockets[i].vendor = "Coinbase"
                          THEN "Disconnected (Coinbase WS). Falling back"
                          ELSE "Disconnected (Kraken WS). Falling back to REST"]_vars
  /\ [][\A i \in DOMAIN sockets :
          (i \in Live(sockets) /\ i \in Live(sockets')) =>
            (starts' = starts /\ wsConn' = wsConn /\ Len(sockets') = Len(sockets))]_vars

\* C11 witness: the primary closed after its handshake, the secondary was
\* constructed and has signalled an error while the notice of the primary's
\* closure is shown.
C11_Witness ==
  /\ Closed(1) /\ Errored(2)
  /\ wsVendor = "Coinbase WS"
  /\ updated = "Disconnected (Coinbase WS). Falling back"

\* A message that is malformed (JSON.parse rejects it, or it has not the
\* shape of a ticker), is for another asset or pair, or carries no number as
\* its price.
CoinbaseIgnorable(m) ==
  \/ ~m.parses \/ m.type # "ticker" \/ m.product_id # "FIL-USD"
  \/ ~isFinite(Number(m.price))
KrakenIgnorable(m) ==
  \/ ~m.parses \/ ~m.isArray \/ m.pair # "FIL/USD"
  \/ ~isFinite(Number(m.c0))

\* C12 (as claimed): on the primary and on the secondary link, the delivery of
\* a message that is malformed, is for another asset or pair, or carries no
\* usable price leaves the current price, the sample buffer and the provider
\* state unchanged (the link stays open for later messages).
C12_ForeignMessagesIgnored ==
  [][\A i \in DOMAIN sockets :
       /\ \A m \in CoinbaseMessages :
            (CoinbaseIgnorable(m) /\ CoinbaseDeliver(i, m)) =>
              UNCHANGED <<lastPrice, priceBuffer, wsVendor, wsConn, sockets>>
       /\ \A m \in KrakenMessages :
            (KrakenIgnorable(m) /\ KrakenDeliver(i, m)) =>
              UNCHANGED <<lastPrice, priceBuffer, wsVendor, wsConn, sockets>>]_vars

\* C13 (as claimed): the active-link value names the link that is active: it
\* is none only while no link has an open connection and polling has not
\* started, it names a real-time link only while that link's connection is
\* not closed, and it names polling only while polling is the active link.
C13_VendorNamesActiveLink ==
  /\ wsVendor = "null" =>
       (starts.REST = 0 /\ \A i \in DOMAIN sockets : sockets[i].state # "open")
  /\ wsVendor = "Coinbase WS" =>
       \E i \in SocketsOf("Coinbase") : sockets[i].state \in {"open", "errored"}
  /\ wsVendor = "Kraken WS" =>
       \E i \in SocketsOf("Kraken") : sockets[i].state \in {"open", "errored"}
  /\ wsVendor = "REST" => Polling

\* C14: at most one polling interval timer is armed, and it is the one whose
\* handle is stored; no timer is armed before polling has been started.  This
\* holds under every sequence of link closures and constructor failures.
C14_OnePollingTimer ==
  /\ Cardinality(timers) <= 1
  /\ timers \subseteq {restPollTimer}
  /\ timers # {} <=> starts.REST >= 1

\* C14 witness: both constructors threw, polling was started by init itself
\* and its interval has fired a further round.
C14_Witness ==
  /\ sockets = <<>> /\ starts.REST = 1
  /\ timers = {restPollTimer}
  /\ pollSeq >= 2

\* C15: the quantity cache is undefined or a finite, strictly positive
\* number; it leaves undefined only on the completion of a round with a
\* positive sum; and once positive it stays positive, whatever the order in
\* which overlapping rounds complete.
C15_CacheUndefinedOrPositive ==
  /\ [](cachedQty = NaN \/ Positive(cachedQty))
  /\ [][(cachedQty = NaN /\ cachedQty' # NaN) =>
          (lastRefresh' # lastRefresh /\ Positive(lastRefresh'.total)
             /\ cachedQty' = lastRefresh'.total)]_vars
  /\ [][Positive(cachedQty) => Positive(cachedQty')]_vars

\* C15 witness: two rounds overlapped, the one started later completed first
\* with a positive sum, and the earlier one completed after it without one.
C15_Witness ==
  /\ Positive(cachedQty)
  /\ qtySeq >= 2 /\ qtyRounds = {}
  /\ lastRefresh.n = 1 /\ ~Positive(lastRefresh.total)

\* C16 (as claimed): the value a provider settles for an address is added to
\* the round's sum only when it is a positive number; a negative result is
\* not accepted, so no term that is added to the sum is below zero.  (A zero
\* term adds nothing and is let through here.)
C16_TermsPositive ==
  [][\A q \in qtyRounds, r \in BalanceResponses :
       QtyResume(q, r) =>
         LET b == balanceStep(q.at, r) IN
         (b.done /\ isFinite(b.q)) => ~Lt(b.q, Num(0))]_vars

Windows == {HalfHourMs, HourMs, DayMs}

\* Index of the earliest retained sample with timestamp >= now - w (the first
\* of them in the buffer when several carry that timestamp), or of the oldest
\* retained sample when none qualifies.
EarliestInWindow(w) ==
  LET qual == {i \in DOMAIN priceBuffer : priceBuffer[i].t >= now - w} IN
  IF qual = {} THEN 1
  ELSE CHOOSE i \in qual :
         \A j \in qual : \/ priceBuffer[i].t < priceBuffer[j].t
                          \/ (priceBuffer[i].t = priceBuffer[j].t /\ i <= j)

\* C17: for every window w, percentChangeSince(w) is undefined when the buffer
\* is empty or the reference price is zero, and else is
\* (last - ref) / ref * 100 with ref the earliest retained sample inside the
\* window (the oldest retained sample when none is inside) and last the
\* newest; for the samples 100 then 110 with the first inside the window it
\* is exactly 10.
C17_PercentChangeReference ==
  \A w \in Windows :
    LET pct == pctChangeSinceMs(priceBuffer, now, w) IN
    /\ priceBuffer = <<>> => pct = NaN
    /\ priceBuffer # <<>> =>
         LET ref == priceBuffer[EarliestInWindow(w)].p
             last == priceBuffer[Len(priceBuffer)].p
         IN pct = IF ref = Num(0) THEN NaN
                  ELSE Mul(Div(Sub(last, ref), ref), Num(100))
    /\ (/\ Len(priceBuffer) = 2
        /\ priceBuffer[1].p = Num(100) /\ priceBuffer[2].p = Num(110)
        /\ priceBuffer[1].t >= now - w) => pct = Num(10)

\* C17 witness: the samples 100 then 110, the first older than one hour and
\* the second not: the 24h change is 10 and the 1h change is 0.
C17_Witness ==
  /\ Len(priceBuffer) = 2
  /\ priceBuffer[1].p = Num(100) /\ priceBuffer[2].p = Num(110)
  /\ priceBuffer[1].t < now - HourMs /\ priceBuffer[2].t >= now - HourMs
  /\ pctChangeSinceMs(priceBuffer, now, DayMs) = Num(10)
  /\ pctChangeSinceMs(priceBuffer, now, HourMs) = Num(0)

\* C18: the buffer is empty exactly when the current price is undefined, and
\* otherwise the current price is the price of the newest sample in the
\* buffer, whichever link delivered it.
C18_PriceIsNewestSample ==
  /\ priceBuffer = <<>> <=> lastPrice = NaN
  /\ priceBuffer # <<>> => lastPrice = priceBuffer[Len(priceBuffer)].p

\* C18 witness: a poll round stored a price after a different price had been
\* stored, and the current price is that of the newest sample.
C18_Witness ==
  /\ wsVendor = "REST" /\ lastPollWrite >= 1
  /\ Len(appended) >= 2
  /\ appended[1].p # appended[Len(appended)].p
  /\ lastPrice = priceBuffer[Len(priceBuffer)].p

\* C19 (as claimed): poll rounds take effect in the order they were started:
\* the round that stores a (positive) price was started after every round
\* that stored one before it, as it would be were at most one round in flight.
C19_PollRoundsInOrder ==
  [][(Positive(lastPrice) /\ Positive(lastPrice')) =>
       lastPollWrite' >= lastPollWrite]_vars

\* A stats response that failed or lacks a finite high or a finite low.
PartialStats(r) ==
  r.kind # "ok" \/ ~isFinite(Number(r.high)) \/ ~isFinite(Number(r.low))

\* C20: the stats cache has high and low both undefined or both finite; a
\* failed or partial response leaves it unchanged and whatever replaces it has
\* both values finite; and the high and low a tick shows are both the cached
\* ones or both those of the buffer's minMaxSince(24h).
C20_StatsBothOrNeither ==
  /\ [](\/ (stats24.high = NaN /\ stats24.low = NaN)
        \/ (isFinite(stats24.high) /\ isFinite(stats24.low)))
  /\ [][\A n \in statsRounds, r \in StatsResponses :
          (PartialStats(r) /\ StatsResume(n, r)) => stats24' = stats24]_vars
  /\ [][stats24' # stats24 => (isFinite(stats24'.high) /\ isFinite(stats24'.low))]_vars
  /\ [](LET mm == minMaxSinceMs(priceBuffer, now, DayMs) IN
        IF isFinite(stats24.high)
        THEN Metrics.hi = stats24.high /\ Metrics.lo = stats24.low
        ELSE Metrics.hi = mm.hi /\ Metrics.lo = mm.lo)

\* C20 witness: the cache was filled, a later response has been handled, and
\* a tick has run with samples in the buffer.
C20_Witness ==
  /\ isFinite(stats24.high) /\ isFinite(stats24.low)
  /\ statsSeq >= 2 /\ statsRounds = {}
  /\ priceBuffer # <<>>
  /\ updated = LiveNote(wsVendor)
====
